---------------------------- MODULE Spec2Model ----------------------------
(***************************************************************************)
(* Two report generators of the repository.                                *)
(*                                                                         *)
(*  - .github/scripts/generate_report.py: reads clippy-output.txt,         *)
(*    fmt-output.txt and test-output.txt, and writes                       *)
(*    reports/analysis-report.md (specification Spec).                     *)
(*  - docs/income/automation/report-generator.py: loads three JSON         *)
(*    documents, computes metrics, renders a template and saves the        *)
(*    rendered report (specification SpecBuilder).                         *)
(*                                                                         *)
(* A line of text is a sequence of tokens (strings); the Python test       *)
(* (marker in line) is the search for the marker token in that sequence.   *)
(* The blank line "" is the empty sequence.                                *)
(***************************************************************************)
EXTENDS Integers, Sequences, FiniteSets, TLC

\* ------------------------------------------------------------------ bounds

\* Longest log file, in lines.
MaxLines == 2

\* ------------------------------------------------- generate_report.py: data

CLIPPY == "clippy-output.txt"
FMT == "fmt-output.txt"
TEST == "test-output.txt"

LogPaths == {CLIPPY, FMT, TEST}

WARNING_MARKER == "warning:"
DIFF_MARKER == "Diff in"
OK_MARKER == "test result: ok"
FAILED_MARKER == "test result: FAILED"

\* The report line of three backquotes that opens and closes a code block
\* (a backquote cannot be written inside a string of this module).
FENCE == "<three backquotes>"

\* Lines a log may hold: two different lines with the marker and a line
\* without it (for the test log: the success line, a failure line, another).
ClippyLines ==
    { <<"warning:", " unused variable">>,
      <<"src/lib.rs:1: ", "warning:", " needless return">>,
      <<"    Checking squirrel">> }

FmtLines ==
    { <<"Diff in", " src/lib.rs at line 1">>,
      <<"Diff in", " src/main.rs at line 7">>,
      <<"+    let x = 1;">> }

TestLines ==
    { <<"test result: ok", ". 5 passed">>,
      <<"test result: FAILED", ". 4 passed; 1 failed">>,
      <<"running 5 tests">> }

\* What reading a file can raise (both are Exception subclasses).
ReadErrors == { "[Errno 13] Permission denied", "utf-8 codec: invalid start byte" }

Timestamps == { "2024-01-01 00:00:00 UTC" }

RECURSIVE SeqsUpTo(_, _)
SeqsUpTo(S, n) ==
    IF n = 0 THEN { <<>> }
    ELSE LET shorter == SeqsUpTo(S, n - 1)
         IN  shorter \cup { Append(s, x) : s \in shorter, x \in S }

Absent == [kind |-> "absent", err |-> "", lines |-> <<>>]
Unreadable(e) == [kind |-> "unreadable", err |-> e, lines |-> <<>>]
Text(ls) == [kind |-> "text", err |-> "", lines |-> ls]

\* The states a log file can be in before the run.
FileStates(LineSet) ==
    {Absent} \cup { Unreadable(e) : e \in ReadErrors }
             \cup { Text(ls) : ls \in SeqsUpTo(LineSet, MaxLines) }

NoFile == <<"<no file>">>

\* Python's None and a value that is not None.
None == <<>>
Some(x) == <<x>>

VARIABLES
    files,          \* generate_report.py: path -> state of the log file
    report_dir,     \* state of ./reports: "absent", "dir" or "file"
    pc,             \* position in main() / generate_report()
    report_content, \* the list generate_report builds
    clippy_results, \* locals of generate_report
    fmt_results,
    test_results,
    report_file,    \* content of reports/analysis-report.md, or NoFile
    stdout,         \* what the script printed
    argv,           \* report-generator.py: sys.argv
    template_file,  \* state of templates/code_review_template.md
    inputs,         \* path -> state of the JSON input file
    generator,      \* the ReportGenerator: None, or Some(loaded template)
    analysis_data,  \* locals of main(): None, or Some(document)
    security_data,
    performance_data,
    report,         \* None, or Some(rendered report)
    saved,          \* the files the run wrote: a set of [path, content]
    exit_status,    \* None while running, then Some(status)
    error           \* the uncaught exception that ended the run, or ""

\* The variables of generate_report.py and those of report-generator.py;
\* report_dir, pc and stdout belong to whichever script runs.
scanVars == << files, report_content, clippy_results, fmt_results,
               test_results, report_file >>
builderVars == << argv, template_file, inputs, generator, analysis_data,
                  security_data, performance_data, report, saved,
                  exit_status, error >>

vars == << files, report_dir, pc, report_content, clippy_results,
           fmt_results, test_results, report_file, stdout, argv,
           template_file, inputs, generator, analysis_data, security_data,
           performance_data, report, saved, exit_status, error >>

\* ---------------------------------------------- generate_report.py: helpers

\* marker in line
Contains(line, marker) == \E i \in 1..Len(line) : line[i] = marker

\* Mutant of FilterLines: out.insert(0, line) for out.append(line).
RECURSIVE FilterLines_Prepends(_, _)
FilterLines_Prepends(lines, marker) ==
    IF lines = <<>> THEN <<>>
    ELSE LET rest == FilterLines_Prepends(Tail(lines), marker)
         IN  IF Contains(Head(lines), marker)
             THEN rest \o <<Head(lines)>>
             ELSE rest

\* for line in lines: if marker in line: out.append(line)
RECURSIVE FilterLines(_, _)
FilterLines(lines, marker) ==
    IF lines = <<>> THEN <<>>
    ELSE LET rest == FilterLines(Tail(lines), marker)
         IN  IF Contains(Head(lines), marker)
             THEN <<Head(lines)>> \o rest
             ELSE rest

\* marker in text, the text being the lines joined by line breaks; the
\* markers hold no line break, so a match lies within one line.
TextContains(lines, marker) == \E i \in 1..Len(lines) : Contains(lines[i], marker)

\* len(xs) inside an f-string. (The two emoji of the test section are
\* written [U+2705] and [U+274C]: the module is ASCII.)
CountOf(xs) == ToString(Len(xs))

\* Mutant of process_clippy_output: the else branch ("No clippy warnings
\* found.") is missing.
process_clippy_output_NoElse(f) ==
    IF f.kind = "absent" THEN <<>>
    ELSE IF f.kind = "unreadable"
    THEN << <<"Error processing clippy output: ", f.err>> >>
    ELSE LET warnings == FilterLines(f.lines, WARNING_MARKER)
         IN  IF warnings # <<>>
             THEN << <<"Found ", CountOf(warnings), " clippy warnings:">>,
                     <<>>,
                     <<FENCE>> >> \o warnings \o << <<FENCE>> >>
             ELSE <<>>

process_clippy_output(f) ==
    IF f.kind = "absent" THEN <<>>
    ELSE IF f.kind = "unreadable"
    THEN << <<"Error processing clippy output: ", f.err>> >>
    ELSE LET warnings == FilterLines(f.lines, WARNING_MARKER)
         IN  IF warnings # <<>>
             THEN << <<"Found ", CountOf(warnings), " clippy warnings:">>,
                     <<>>,
                     <<FENCE>> >> \o warnings \o << <<FENCE>> >>
             ELSE << <<"No clippy warnings found.">> >>

\* Mutant of process_fmt_output: no exists() test, so that reading an absent
\* file raises and is reported.
process_fmt_output_NoExistsCheck(f) ==
    IF f.kind = "absent"
    THEN << <<"Error processing fmt output: ", "[Errno 2] No such file or directory">> >>
    ELSE IF f.kind = "unreadable"
    THEN << <<"Error processing fmt output: ", f.err>> >>
    ELSE LET formatting_issues == FilterLines(f.lines, DIFF_MARKER)
         IN  IF formatting_issues # <<>>
             THEN << <<"Found ", CountOf(formatting_issues), " formatting issues:">>,
                     <<>>,
                     <<FENCE>> >> \o formatting_issues \o << <<FENCE>> >>
             ELSE << <<"No formatting issues found.">> >>

process_fmt_output(f) ==
    IF f.kind = "absent" THEN <<>>
    ELSE IF f.kind = "unreadable"
    THEN << <<"Error processing fmt output: ", f.err>> >>
    ELSE LET formatting_issues == FilterLines(f.lines, DIFF_MARKER)
         IN  IF formatting_issues # <<>>
             THEN << <<"Found ", CountOf(formatting_issues), " formatting issues:">>,
                     <<>>,
                     <<FENCE>> >> \o formatting_issues \o << <<FENCE>> >>
             ELSE << <<"No formatting issues found.">> >>

\* Mutant of process_test_output: the FAILED lines are scanned first, the
\* success marker is tested only when there is none.
process_test_output_FailedFirst(f) ==
    IF f.kind = "absent" THEN <<>>
    ELSE IF f.kind = "unreadable"
    THEN << <<"Error processing test output: ", f.err>> >>
    ELSE LET failed_tests == FilterLines(f.lines, FAILED_MARKER)
         IN  IF failed_tests # <<>>
             THEN << <<"[U+274C] Some tests failed:">>,
                     <<>>,
                     <<FENCE>> >> \o failed_tests \o << <<FENCE>> >>
             ELSE IF TextContains(f.lines, OK_MARKER)
                  THEN << <<"[U+2705] All tests passed">> >>
                  ELSE <<>>

process_test_output(f) ==
    IF f.kind = "absent" THEN <<>>
    ELSE IF f.kind = "unreadable"
    THEN << <<"Error processing test output: ", f.err>> >>
    ELSE IF TextContains(f.lines, OK_MARKER)
         THEN << <<"[U+2705] All tests passed">> >>
         ELSE LET failed_tests == FilterLines(f.lines, FAILED_MARKER)
              IN  IF failed_tests # <<>>
                  THEN << <<"[U+274C] Some tests failed:">>,
                          <<>>,
                          <<FENCE>> >> \o failed_tests \o << <<FENCE>> >>
                  ELSE <<>>

Header(ts) ==
    << <<"# Code Analysis Report">>,
       <<"Generated on: ", ts>>,
       <<>>,
       <<"## Summary">>,
       <<>> >>

ClippySection(results) ==
    IF results # <<>>
    THEN << <<"### Rust Analysis">>, <<>>, <<"#### Clippy Findings">>, <<>> >>
         \o results \o << <<>> >>
    ELSE <<>>

\* Mutant of FmtSection: the fmt results bring their own parent heading.
FmtSection_OwnRustHeading(results) ==
    IF results # <<>>
    THEN << <<"### Rust Analysis">>, <<>>, <<"#### Formatting Issues">>, <<>> >>
         \o results \o << <<>> >>
    ELSE <<>>

FmtSection(results) ==
    IF results # <<>>
    THEN << <<"#### Formatting Issues">>, <<>> >> \o results \o << <<>> >>
    ELSE <<>>

TestSection(results) ==
    IF results # <<>>
    THEN << <<"### Test Results">>, <<>> >> \o results \o << <<>> >>
    ELSE <<>>

\* "\n".join(lines): the text as one sequence of tokens
RECURSIVE JoinLines(_)
JoinLines(lines) ==
    IF lines = <<>> THEN <<>>
    ELSE IF Len(lines) = 1 THEN lines[1]
    ELSE lines[1] \o <<"\n">> \o JoinLines(Tail(lines))

\* ---------------------------------------------- generate_report.py: actions

\* report-generator.py is not running.
BuilderIdle ==
    /\ argv = <<>>
    /\ template_file = "missing"
    /\ inputs = <<>>
    /\ generator = None
    /\ analysis_data = None
    /\ security_data = None
    /\ performance_data = None
    /\ report = None
    /\ saved = {}
    /\ exit_status = None
    /\ error = ""

Init ==
    /\ \E c \in FileStates(ClippyLines), f \in FileStates(FmtLines),
          t \in FileStates(TestLines) :
            files = [p \in LogPaths |->
                        IF p = CLIPPY THEN c ELSE IF p = FMT THEN f ELSE t]
    /\ report_dir \in {"absent", "dir", "file"}
    /\ pc = "main"
    /\ report_content = <<>>
    /\ clippy_results = <<>>
    /\ fmt_results = <<>>
    /\ test_results = <<>>
    /\ report_file = NoFile
    /\ stdout = <<>>
    /\ BuilderIdle

\* ReportGenerator.__init__: Path("reports").mkdir(exist_ok=True)
Construct ==
    /\ pc = "main"
    /\ IF report_dir = "file"
       THEN \* FileExistsError, uncaught
            /\ pc' = "crashed"
            /\ UNCHANGED report_dir
       ELSE /\ pc' = "header"
            /\ report_dir' = "dir"
    /\ UNCHANGED << files, report_content, clippy_results, fmt_results,
                    test_results, report_file, stdout >>
    /\ UNCHANGED builderVars

AddHeader ==
    /\ pc = "header"
    /\ \E ts \in Timestamps : report_content' = Header(ts)
    /\ pc' = "clippy"
    /\ UNCHANGED << files, report_dir, clippy_results, fmt_results,
                    test_results, report_file, stdout >>
    /\ UNCHANGED builderVars

\* Mutant of AddClippy: process_clippy_output without its try/except, so that
\* a read failure ends the run.
AddClippy_NoCatch ==
    /\ pc = "clippy"
    /\ IF files[CLIPPY].kind = "unreadable"
       THEN /\ pc' = "crashed"
            /\ UNCHANGED << clippy_results, report_content >>
       ELSE /\ clippy_results' = process_clippy_output(files[CLIPPY])
            /\ report_content' = report_content \o ClippySection(clippy_results')
            /\ pc' = "fmt"
    /\ UNCHANGED << files, report_dir, fmt_results, test_results,
                    report_file, stdout >>
    /\ UNCHANGED builderVars

AddClippy ==
    /\ pc = "clippy"
    /\ clippy_results' = process_clippy_output(files[CLIPPY])
    /\ report_content' = report_content \o ClippySection(clippy_results')
    /\ pc' = "fmt"
    /\ UNCHANGED << files, report_dir, fmt_results, test_results,
                    report_file, stdout >>
    /\ UNCHANGED builderVars

AddFmt ==
    /\ pc = "fmt"
    /\ fmt_results' = process_fmt_output(files[FMT])
    /\ report_content' = report_content \o FmtSection(fmt_results')
    /\ pc' = "test"
    /\ UNCHANGED << files, report_dir, clippy_results, test_results,
                    report_file, stdout >>
    /\ UNCHANGED builderVars

AddTest ==
    /\ pc = "test"
    /\ test_results' = process_test_output(files[TEST])
    /\ report_content' = report_content \o TestSection(test_results')
    /\ pc' = "write"
    /\ UNCHANGED << files, report_dir, clippy_results, fmt_results,
                    report_file, stdout >>
    /\ UNCHANGED builderVars

WriteReport ==
    /\ pc = "write"
    /\ report_file' = JoinLines(report_content)
    /\ stdout' = Append(stdout, <<"Report generated at ", "reports/analysis-report.md">>)
    /\ pc' = "done"
    /\ UNCHANGED << files, report_dir, report_content, clippy_results,
                    fmt_results, test_results >>
    /\ UNCHANGED builderVars

Next ==
    \/ Construct
    \/ AddHeader
    \/ AddClippy
    \/ AddFmt
    \/ AddTest
    \/ WriteReport

Spec == Init /\ [][Next]_vars

\* ------------------------------------------------ report-generator.py: data

\* Longest list under a key of the analysis document.
MaxList == 2

\* sys.argv of a full call, with one argument too many; a run gets a prefix.
FullArgv ==
    << "report-generator.py", "squirrel", "analysis.json", "security.json",
       "performance.json", "extra" >>

InputPaths == { "analysis.json", "security.json", "performance.json" }

SummaryKeys == { "files", "critical", "major", "minor", "best_practices" }

\* What a key of a JSON object holds: nothing (the key is absent), a list,
\* or null (a value without a length).
AbsentValue == [type |-> "absent", items |-> <<>>]
NullValue == [type |-> "null", items |-> <<>>]
ListValue(n) == [type |-> "list", items |-> [i \in 1..n |-> "item"]]
EmptyList == ListValue(0)

KeyValues == { AbsentValue, NullValue } \cup { ListValue(n) : n \in 0..MaxList }

\* A parsed JSON document: an object, seen through the five keys that are
\* read, or a document whose top level is an array.
ObjectDoc(members) == [type |-> "object", members |-> members]
ArrayDoc == [type |-> "array", members |-> [k \in SummaryKeys |-> AbsentValue]]
EmptyObject == ObjectDoc([k \in SummaryKeys |-> AbsentValue])

AnalysisDocs == { ObjectDoc(m) : m \in [SummaryKeys -> KeyValues] } \cup { ArrayDoc }

\* A JSON input file: missing, not well-formed, or holding a document.
MissingFile == [kind |-> "missing", doc |-> EmptyObject]
MalformedFile == [kind |-> "malformed", doc |-> EmptyObject]
JsonFile(d) == [kind |-> "json", doc |-> d]

\* The local date of datetime.now(), as year, month, day.
Dates == { << "2024", "01", "31" >> }

\* strftime("%Y-%m-%d") and strftime("%Y%m%d")
FormatDashed(d) == << d[1], "-", d[2], "-", d[3] >>
FormatCompact(d) == << d[1], d[2], d[3] >>

USAGE ==
    "Usage: report-generator.py <project_name> <analysis_file> <security_file> <performance_file>"

\* -------------------------------------------- report-generator.py: helpers

\* analysis_data.get(key, [])
Get(analysis_data_, key) ==
    IF analysis_data_.members[key].type = "absent"
    THEN EmptyList
    ELSE analysis_data_.members[key]

\* What _calculate_metrics raises on a document, "" when it returns:
\* a top-level array has no get, and null has no len().
CalculateMetricsError(analysis_data_) ==
    IF analysis_data_.type # "object" THEN "AttributeError"
    ELSE IF \E k \in SummaryKeys : Get(analysis_data_, k).type # "list"
         THEN "TypeError"
         ELSE ""

\* Mutant of _calculate_metrics: major_issues counts the "minor" list.
_calculate_metrics_CopyPaste(analysis_data_) ==
    [ files_reviewed |-> Len(Get(analysis_data_, "files").items),
      critical_issues |-> Len(Get(analysis_data_, "critical").items),
      major_issues |-> Len(Get(analysis_data_, "minor").items),
      minor_issues |-> Len(Get(analysis_data_, "minor").items),
      best_practices |-> Len(Get(analysis_data_, "best_practices").items) ]

_calculate_metrics(analysis_data_) ==
    [ files_reviewed |-> Len(Get(analysis_data_, "files").items),
      critical_issues |-> Len(Get(analysis_data_, "critical").items),
      major_issues |-> Len(Get(analysis_data_, "major").items),
      minor_issues |-> Len(Get(analysis_data_, "minor").items),
      best_practices |-> Len(Get(analysis_data_, "best_practices").items) ]

\* self.template.render(**report_data): the template is a file outside the
\* program; its output is kept as the template's name and the context.
Render(report_data) ==
    [template |-> "code_review_template.md", context |-> report_data]

generate_report(project_name, analysis, security, performance, today) ==
    Render([ project_name |-> project_name,
             date |-> FormatDashed(today),
             reviewer |-> "DataScienceBioLab",
             analysis |-> analysis,
             security |-> security,
             performance |-> performance,
             metrics |-> _calculate_metrics(analysis) ])

\* f"reports/{project_name}-review-{...strftime('%Y%m%d')}.md"
OutputFile(project_name, today) ==
    << "reports/", project_name, "-review-" >> \o FormatCompact(today) \o << ".md" >>

\* What open(path) / json.load raise on an input file, "" when it loads.
LoadError(f) ==
    IF f.kind = "missing" THEN "FileNotFoundError"
    ELSE IF f.kind = "malformed" THEN "JSONDecodeError"
    ELSE ""

\* -------------------------------------------- report-generator.py: actions

ScannerIdle ==
    /\ files = <<>>
    /\ report_content = <<>>
    /\ clippy_results = <<>>
    /\ fmt_results = <<>>
    /\ test_results = <<>>
    /\ report_file = NoFile

BuilderInit ==
    /\ \E n \in 1..Len(FullArgv) : argv = SubSeq(FullArgv, 1, n)
    /\ template_file \in {"present", "missing"}
    /\ \E a \in {MissingFile, MalformedFile} \cup { JsonFile(d) : d \in AnalysisDocs },
          x \in {MissingFile, MalformedFile, JsonFile(EmptyObject)},
          y \in {MissingFile, MalformedFile, JsonFile(EmptyObject)} :
            inputs = [p \in InputPaths |->
                        IF p = "analysis.json" THEN a
                        ELSE IF p = "security.json" THEN x ELSE y]
    /\ report_dir \in {"absent", "dir"}
    /\ pc = "check_args"
    /\ stdout = <<>>
    /\ generator = None
    /\ analysis_data = None
    /\ security_data = None
    /\ performance_data = None
    /\ report = None
    /\ saved = {}
    /\ exit_status = None
    /\ error = ""
    /\ ScannerIdle

\* An uncaught exception ends the run: traceback, status 1.
Uncaught(e) ==
    /\ pc' = "exit"
    /\ exit_status' = Some(1)
    /\ error' = e

\* Mutant of CheckArgs: len(sys.argv) < 4 for len(sys.argv) < 5.
CheckArgs_OffByOne ==
    /\ pc = "check_args"
    /\ IF Len(argv) < 4
       THEN /\ stdout' = Append(stdout, <<USAGE>>)
            /\ pc' = "exit"
            /\ exit_status' = Some(1)
       ELSE /\ pc' = "construct"
            /\ UNCHANGED << stdout, exit_status >>
    /\ UNCHANGED << argv, template_file, inputs, generator, analysis_data,
                    security_data, performance_data, report, saved, error,
                    report_dir >>
    /\ UNCHANGED scanVars

\* main(): if len(sys.argv) < 5: print usage; sys.exit(1)
CheckArgs ==
    /\ pc = "check_args"
    /\ IF Len(argv) < 5
       THEN /\ stdout' = Append(stdout, <<USAGE>>)
            /\ pc' = "exit"
            /\ exit_status' = Some(1)
       ELSE /\ pc' = "construct"
            /\ UNCHANGED << stdout, exit_status >>
    /\ UNCHANGED << argv, template_file, inputs, generator, analysis_data,
                    security_data, performance_data, report, saved, error,
                    report_dir >>
    /\ UNCHANGED scanVars

\* generator = ReportGenerator(): get_template raises TemplateNotFound
ConstructGenerator ==
    /\ pc = "construct"
    /\ IF template_file = "missing"
       THEN /\ Uncaught("TemplateNotFound")
            /\ UNCHANGED generator
       ELSE /\ generator' = Some("code_review_template.md")
            /\ pc' = "load_analysis"
            /\ UNCHANGED << exit_status, error >>
    /\ UNCHANGED << argv, template_file, inputs, analysis_data, security_data,
                    performance_data, report, saved, stdout, report_dir >>
    /\ UNCHANGED scanVars

LoadAnalysis ==
    /\ pc = "load_analysis"
    /\ LET f == inputs[argv[3]]
       IN  IF LoadError(f) # ""
           THEN /\ Uncaught(LoadError(f))
                /\ UNCHANGED analysis_data
           ELSE /\ analysis_data' = Some(f.doc)
                /\ pc' = "load_security"
                /\ UNCHANGED << exit_status, error >>
    /\ UNCHANGED << argv, template_file, inputs, generator, security_data,
                    performance_data, report, saved, stdout, report_dir >>
    /\ UNCHANGED scanVars

LoadSecurity ==
    /\ pc = "load_security"
    /\ LET f == inputs[argv[4]]
       IN  IF LoadError(f) # ""
           THEN /\ Uncaught(LoadError(f))
                /\ UNCHANGED security_data
           ELSE /\ security_data' = Some(f.doc)
                /\ pc' = "load_performance"
                /\ UNCHANGED << exit_status, error >>
    /\ UNCHANGED << argv, template_file, inputs, generator, analysis_data,
                    performance_data, report, saved, stdout, report_dir >>
    /\ UNCHANGED scanVars

\* Mutant of LoadPerformance: a file that does not load is taken as {}.
LoadPerformance_Tolerant ==
    /\ pc = "load_performance"
    /\ LET f == inputs[argv[5]]
       IN  performance_data' = Some(IF LoadError(f) # "" THEN EmptyObject ELSE f.doc)
    /\ pc' = "generate"
    /\ UNCHANGED << argv, template_file, inputs, generator, analysis_data,
                    security_data, report, saved, stdout, report_dir,
                    exit_status, error >>
    /\ UNCHANGED scanVars

LoadPerformance ==
    /\ pc = "load_performance"
    /\ LET f == inputs[argv[5]]
       IN  IF LoadError(f) # ""
           THEN /\ Uncaught(LoadError(f))
                /\ UNCHANGED performance_data
           ELSE /\ performance_data' = Some(f.doc)
                /\ pc' = "generate"
                /\ UNCHANGED << exit_status, error >>
    /\ UNCHANGED << argv, template_file, inputs, generator, analysis_data,
                    security_data, report, saved, stdout, report_dir >>
    /\ UNCHANGED scanVars

\* report = generator.generate_report(...)
GenerateReport ==
    /\ pc = "generate"
    /\ IF CalculateMetricsError(analysis_data[1]) # ""
       THEN /\ Uncaught(CalculateMetricsError(analysis_data[1]))
            /\ UNCHANGED report
       ELSE /\ \E today \in Dates :
                  report' = Some(generate_report(argv[2], analysis_data[1],
                                                 security_data[1],
                                                 performance_data[1], today))
            /\ pc' = "save"
            /\ UNCHANGED << exit_status, error >>
    /\ UNCHANGED << argv, template_file, inputs, generator, analysis_data,
                    security_data, performance_data, saved, stdout, report_dir >>
    /\ UNCHANGED scanVars

\* generator.save_report(report, output_file): open(output_file, "w") makes
\* no directory; then print and return (status 0).
SaveReport ==
    /\ pc = "save"
    /\ \E today \in Dates :
         LET output_file == OutputFile(argv[2], today)
         IN  IF report_dir # "dir"
             THEN /\ Uncaught("FileNotFoundError")
                  /\ UNCHANGED << saved, stdout >>
             ELSE /\ saved' = { f \in saved : f.path # output_file }
                                \cup { [path |-> output_file, content |-> report[1]] }
                  /\ stdout' = Append(stdout, <<"Report generated: ">> \o output_file)
                  /\ pc' = "exit"
                  /\ exit_status' = Some(0)
                  /\ UNCHANGED error
    /\ UNCHANGED << argv, template_file, inputs, generator, analysis_data,
                    security_data, performance_data, report, report_dir >>
    /\ UNCHANGED scanVars

BuilderNext ==
    \/ CheckArgs
    \/ ConstructGenerator
    \/ LoadAnalysis
    \/ LoadSecurity
    \/ LoadPerformance
    \/ GenerateReport
    \/ SaveReport

SpecBuilder == BuilderInit /\ [][BuilderNext]_vars

\* ----------------------------------------- report-generator.py: properties

\* The input files in the order main() loads them.
AnalysisInput == inputs["analysis.json"]
SecurityInput == inputs["security.json"]
PerformanceInput == inputs["performance.json"]

\* An input file that is missing or is not well-formed JSON.
Unloadable(f) == f.kind \in {"missing", "malformed"}

\* C4: if one of the three input files is missing or is not well-formed JSON,
\* the run ends in a fatal error and no report file is written: the render and
\* the write are never reached after a load failure.
C4_FailFast ==
    (\E p \in InputPaths : Unloadable(inputs[p])) =>
        /\ saved = {}
        /\ report = None
        /\ pc \notin {"generate", "save"}
        /\ pc = "exit" => (exit_status = Some(1) /\ ~ (\E line \in DOMAIN stdout :
                                                       stdout[line][1] = "Report generated: "))
        /\ (pc = "exit" /\ Len(argv) >= 5 /\ template_file = "present") =>
               error \in {"FileNotFoundError", "JSONDecodeError"}
        /\ pc \notin {"exit"} => ENABLED BuilderNext

\* C4 witness: a run with its four arguments and its template ended by the
\* malformed third input, after the first two were loaded.
C4_Witness ==
    /\ pc = "exit"
    /\ Len(argv) >= 5
    /\ analysis_data # None
    /\ security_data # None
    /\ PerformanceInput.kind = "malformed"
    /\ error = "JSONDecodeError"
    /\ report_dir = "dir"

\* C5: with fewer than 4 positional arguments the run prints the usage line
\* and exits with status 1 before it loads the template or an input, and
\* writes no file.
C5_UsageExit ==
    Len(argv) < 5 =>
        /\ pc \in {"check_args", "exit"}
        /\ generator = None
        /\ analysis_data = None /\ security_data = None /\ performance_data = None
        /\ report = None
        /\ saved = {}
        /\ pc = "check_args" => ENABLED CheckArgs
        /\ pc = "exit" => /\ exit_status = Some(1)
                          /\ stdout = << <<USAGE>> >>
                          /\ error = ""

\* C5 witness: a run with 3 positional arguments has exited.
C5_Witness ==
    /\ pc = "exit"
    /\ Len(argv) = 4
    /\ template_file = "present"
    /\ report_dir = "dir"

\* A run that succeeded up to the write: 4 arguments, the template and the
\* three inputs loaded, the report rendered.
Rendered ==
    /\ Len(argv) >= 5
    /\ generator # None
    /\ analysis_data # None /\ security_data # None /\ performance_data # None
    /\ report # None

\* C6 as claimed: a run that rendered its report ends with the report written
\* to reports/<project_name>-review-<YYYYMMDD>.md, also when ./reports did
\* not exist at the start.
C6_ReportWritten ==
    (pc = "exit" /\ Rendered) =>
        \E f \in saved, today \in Dates :
            /\ f.path = << "reports/", argv[2], "-review-", today[1], today[2], today[3], ".md" >>
            /\ f.content = report[1]

\* The keys of an analysis document that is an object whose present summary
\* keys hold lists.
ListValued(doc) ==
    /\ doc.type = "object"
    /\ \A k \in SummaryKeys : doc.members[k].type \in {"absent", "list"}

\* The count the claim gives for a key: the length of its list, 0 when absent.
ExpectedCount(doc, k) ==
    IF doc.members[k].type = "absent" THEN 0
    ELSE Cardinality(DOMAIN doc.members[k].items)

\* C7: for an analysis document (an object whose summary keys, where present,
\* hold lists) _calculate_metrics raises nothing and gives the five counts:
\* each the length of the list under files, critical, major, minor,
\* best_practices, and 0 for an absent key; {} gives five zeros.
C7_Metrics ==
    (analysis_data # None /\ ListValued(analysis_data[1])) =>
        /\ CalculateMetricsError(analysis_data[1]) = ""
        /\ pc = "exit" => error \notin {"TypeError", "AttributeError"}
        /\ report # None =>
             LET metrics == report[1].context.metrics
                 doc == analysis_data[1]
             IN  /\ DOMAIN metrics = { "files_reviewed", "critical_issues",
                                       "major_issues", "minor_issues", "best_practices" }
                 /\ metrics.files_reviewed = ExpectedCount(doc, "files")
                 /\ metrics.critical_issues = ExpectedCount(doc, "critical")
                 /\ metrics.major_issues = ExpectedCount(doc, "major")
                 /\ metrics.minor_issues = ExpectedCount(doc, "minor")
                 /\ metrics.best_practices = ExpectedCount(doc, "best_practices")
                 /\ doc = EmptyObject =>
                        metrics = [ files_reviewed |-> 0, critical_issues |-> 0,
                                    major_issues |-> 0, minor_issues |-> 0,
                                    best_practices |-> 0 ]

\* C7 witness: a report rendered from a document with two files, one major
\* issue, no minor issue and no key critical or best_practices.
C7_Witness ==
    /\ report # None
    /\ analysis_data[1].type = "object"
    /\ analysis_data[1].members["files"] = ListValue(2)
    /\ analysis_data[1].members["major"] = ListValue(1)
    /\ analysis_data[1].members["minor"] = ListValue(0)
    /\ analysis_data[1].members["critical"] = AbsentValue
    /\ analysis_data[1].members["best_practices"] = AbsentValue
    /\ report[1].context.metrics.files_reviewed = 2
    /\ report[1].context.metrics.critical_issues = 0

\* ------------------------------------------- generate_report.py: properties

\* The steps after the clippy / fmt / test source was processed.
AfterClippy == pc \in {"fmt", "test", "write", "done"}
AfterFmt == pc \in {"test", "write", "done"}
AfterTest == pc \in {"write", "done"}

\* Stated without the scanner helpers: the tokens of a line, the lines of a
\* log that hold a marker, and where a block of lines occurs in a text.
TokensOf(line) == { line[i] : i \in DOMAIN line }
MarkedIndexes(lines, marker) == { i \in DOMAIN lines : marker \in TokensOf(lines[i]) }
MarkedLines(lines, marker) == SelectSeq(lines, LAMBDA l : marker \in TokensOf(l))
Occurs(block, text) ==
    \E i \in 1..(Len(text) - Len(block) + 1) :
        SubSeq(text, i, i + Len(block) - 1) = block

\* The lines of a text of tokens, cut at the line breaks.
RECURSIVE LinesOfText(_, _)
LinesOfText(text, current) ==
    IF text = <<>> THEN <<current>>
    ELSE IF Head(text) = "\n"
         THEN <<current>> \o LinesOfText(Tail(text), <<>>)
         ELSE LinesOfText(Tail(text), Append(current, Head(text)))

\* The lines of reports/analysis-report.md, once written.
WrittenLines == LinesOfText(report_file, <<>>)

\* A findings block: the count line, a blank line, the fence, exactly the
\* marked lines in file order, the fence.
IsFindingsBlock(results, lines, marker, what) ==
    LET n == Cardinality(MarkedIndexes(lines, marker))
    IN  /\ Len(results) = n + 4
        /\ results[1] = <<"Found ", ToString(n), what>>
        /\ results[2] = <<>>
        /\ results[3] = <<FENCE>>
        /\ SubSeq(results, 4, n + 3) = MarkedLines(lines, marker)
        /\ results[n + 4] = <<FENCE>>
        /\ \A i \in 4..(n + 3) : results[i] # <<FENCE>>

\* C1: for the clippy source (marker "warning:") and the fmt source (marker
\* "Diff in"), when the file is read and at least one line holds the marker,
\* the count line "Found N ..." has N = the number of lines holding the
\* marker and the fenced block holds exactly those lines, in file order; the
\* block stands under its heading in the report that is written.
C1_CountAndBlock ==
    /\ ( /\ AfterClippy
         /\ files[CLIPPY].kind = "text"
         /\ MarkedIndexes(files[CLIPPY].lines, WARNING_MARKER) # {} )
       => /\ IsFindingsBlock(clippy_results, files[CLIPPY].lines,
                             WARNING_MARKER, " clippy warnings:")
          /\ Occurs(<< <<"#### Clippy Findings">>, <<>> >> \o clippy_results \o << <<>> >>,
                    report_content)
          /\ pc = "done" =>
                Occurs(<< <<"#### Clippy Findings">>, <<>> >> \o clippy_results \o << <<>> >>,
                       WrittenLines)
    /\ ( /\ AfterFmt
         /\ files[FMT].kind = "text"
         /\ MarkedIndexes(files[FMT].lines, DIFF_MARKER) # {} )
       => /\ IsFindingsBlock(fmt_results, files[FMT].lines,
                             DIFF_MARKER, " formatting issues:")
          /\ Occurs(<< <<"#### Formatting Issues">>, <<>> >> \o fmt_results \o << <<>> >>,
                    report_content)
          /\ pc = "done" =>
                Occurs(<< <<"#### Formatting Issues">>, <<>> >> \o fmt_results \o << <<>> >>,
                       WrittenLines)

\* C1 witness: the report is written from a clippy log of a line with the
\* marker, and a line without it, and a fmt log of two different marked lines.
C1_Witness ==
    /\ pc = "done"
    /\ files[CLIPPY].kind = "text"
    /\ Len(files[CLIPPY].lines) = 2
    /\ Cardinality(MarkedIndexes(files[CLIPPY].lines, WARNING_MARKER)) = 1
    /\ files[FMT].kind = "text"
    /\ Cardinality(MarkedIndexes(files[FMT].lines, DIFF_MARKER)) = 2
    /\ files[FMT].lines[1] # files[FMT].lines[2]

\* C2: if the test log holds "test result: ok" anywhere, the Test Results
\* section is the single line "All tests passed" and no failure block, also
\* when the log holds "test result: FAILED" lines; the failure block is
\* reported only when the success marker is absent, and then lists the
\* FAILED lines.
C2_TwoBranch ==
    (AfterTest /\ files[TEST].kind = "text") =>
        LET lines == files[TEST].lines
            ok == MarkedIndexes(lines, OK_MARKER) # {}
            failed == MarkedLines(lines, FAILED_MARKER)
        IN  /\ ok => /\ test_results = << <<"[U+2705] All tests passed">> >>
                     /\ Occurs(<< <<"### Test Results">>, <<>>,
                                  <<"[U+2705] All tests passed">>, <<>> >>,
                               report_content)
                     /\ ~ Occurs(<< <<"[U+274C] Some tests failed:">> >>, report_content)
            /\ (~ ok /\ failed # <<>>) =>
                     /\ test_results = << <<"[U+274C] Some tests failed:">>, <<>>, <<FENCE>> >>
                                       \o failed \o << <<FENCE>> >>
                     /\ Occurs(<< <<"### Test Results">>, <<>> >> \o test_results \o << <<>> >>,
                               report_content)
            /\ Occurs(<< <<"[U+274C] Some tests failed:">> >>, report_content) => ~ ok

\* C2 witness: the report is written from a test log that holds both a
\* success line and a FAILED line.
C2_Witness ==
    /\ pc = "done"
    /\ files[TEST].kind = "text"
    /\ MarkedIndexes(files[TEST].lines, OK_MARKER) # {}
    /\ MarkedIndexes(files[TEST].lines, FAILED_MARKER) # {}

\* C3: a failure while reading a log source (other than its absence) is caught
\* in that source's step and becomes the one line "Error processing ...
\* output: ..." of the report; the sources after it are still processed, the
\* run is not aborted by it and reports/analysis-report.md is written.
C3_BestEffort ==
    /\ (AfterClippy /\ files[CLIPPY].kind = "unreadable") =>
            /\ clippy_results = << <<"Error processing clippy output: ", files[CLIPPY].err>> >>
            /\ Occurs(clippy_results, report_content)
    /\ (AfterFmt /\ files[FMT].kind = "unreadable") =>
            /\ fmt_results = << <<"Error processing fmt output: ", files[FMT].err>> >>
            /\ Occurs(fmt_results, report_content)
    /\ (AfterTest /\ files[TEST].kind = "unreadable") =>
            /\ test_results = << <<"Error processing test output: ", files[TEST].err>> >>
            /\ Occurs(test_results, report_content)
    \* the run stops early only where ./reports cannot be made a directory
    /\ pc = "crashed" => (report_dir = "file" /\ report_content = <<>>)
    /\ pc \notin {"done", "crashed"} => ENABLED Next
    /\ pc = "done" =>
            /\ report_file # NoFile
            /\ WrittenLines = report_content
            /\ \A p \in LogPaths : files[p].kind = "unreadable" =>
                   \E i \in DOMAIN WrittenLines :
                       /\ Len(WrittenLines[i]) = 2
                       /\ WrittenLines[i][2] = files[p].err
            \* a failing source does not silence a readable one after it
            /\ (files[FMT].kind = "text" /\ files[CLIPPY].kind = "unreadable") =>
                   Occurs(<< <<"#### Formatting Issues">> >>, WrittenLines)
            /\ ( /\ files[TEST].kind = "text"
                 /\ MarkedIndexes(files[TEST].lines, OK_MARKER) # {}
                 /\ \E p \in {CLIPPY, FMT} : files[p].kind = "unreadable" ) =>
                   Occurs(<< <<"### Test Results">> >>, WrittenLines)

\* C3 witness: the report is written although the clippy log could not be
\* read, and the fmt and test logs after it were read.
C3_Witness ==
    /\ pc = "done"
    /\ files[CLIPPY].kind = "unreadable"
    /\ files[FMT].kind = "text"
    /\ files[TEST].kind = "text"
    /\ report_file # NoFile
    /\ fmt_results # <<>>

SectionHeading(p) ==
    IF p = CLIPPY THEN <<"#### Clippy Findings">>
    ELSE IF p = FMT THEN <<"#### Formatting Issues">>
    ELSE <<"### Test Results">>

ResultsOf(p) ==
    IF p = CLIPPY THEN clippy_results
    ELSE IF p = FMT THEN fmt_results
    ELSE test_results

\* C8 as claimed: when a log file is absent, its section of the report renders
\* exactly its "no issues" sentence (the test section has no such sentence,
\* so for it: the section is rendered at all).
C8_AbsentRendersSentence ==
    pc = "done" =>
        /\ files[CLIPPY].kind = "absent" =>
               Occurs(<< <<"#### Clippy Findings">>, <<>>,
                         <<"No clippy warnings found.">>, <<>> >>, WrittenLines)
        /\ files[FMT].kind = "absent" =>
               Occurs(<< <<"#### Formatting Issues">>, <<>>,
                         <<"No formatting issues found.">>, <<>> >>, WrittenLines)
        /\ files[TEST].kind = "absent" =>
               Occurs(<< <<"### Test Results">> >>, WrittenLines)

\* C8 amended: when a log file is absent, its section is left out of the
\* report: the source yields no line, and neither the section's heading nor
\* its "no issues" sentence is written.
C8_AbsentOmitted ==
    pc = "done" =>
        \A p \in LogPaths : files[p].kind = "absent" =>
            /\ ResultsOf(p) = <<>>
            /\ ~ Occurs(<<SectionHeading(p)>>, WrittenLines)
            /\ p = CLIPPY => ~ Occurs(<< <<"No clippy warnings found.">> >>, WrittenLines)
            /\ p = FMT => ~ Occurs(<< <<"No formatting issues found.">> >>, WrittenLines)

\* C8 witness: a report written with the fmt log absent and the others read.
C8_Witness ==
    /\ pc = "done"
    /\ files[FMT].kind = "absent"
    /\ files[CLIPPY].kind = "text"
    /\ files[TEST].kind = "text"
    /\ test_results # <<>>

\* A log that was read and holds none of its section's markers.
ReadWithoutMatch(p) ==
    /\ files[p].kind = "text"
    /\ IF p = CLIPPY THEN MarkedIndexes(files[p].lines, WARNING_MARKER) = {}
       ELSE IF p = FMT THEN MarkedIndexes(files[p].lines, DIFF_MARKER) = {}
       ELSE /\ MarkedIndexes(files[p].lines, OK_MARKER) = {}
            /\ MarkedIndexes(files[p].lines, FAILED_MARKER) = {}

\* C9 as claimed: each of the three sections is rendered, with at least a
\* sentence, when its log exists and holds no line with its marker(s).
C9_AllThreeRendered ==
    pc = "done" =>
        \A p \in LogPaths : ReadWithoutMatch(p) =>
            /\ ResultsOf(p) # <<>>
            /\ Occurs(<<SectionHeading(p)>>, WrittenLines)

\* C9 amended: Clippy Findings and Formatting Issues are rendered with their
\* sentence ("No clippy warnings found." / "No formatting issues found.")
\* when their log is read and holds no line with the marker; Test Results has
\* no such sentence and is left out when the test log is read and holds
\* neither marker.
C9_ClippyFmtRendered ==
    pc = "done" =>
        /\ ReadWithoutMatch(CLIPPY) =>
               Occurs(<< <<"#### Clippy Findings">>, <<>>,
                         <<"No clippy warnings found.">>, <<>> >>, WrittenLines)
        /\ ReadWithoutMatch(FMT) =>
               Occurs(<< <<"#### Formatting Issues">>, <<>>,
                         <<"No formatting issues found.">>, <<>> >>, WrittenLines)
        /\ ReadWithoutMatch(TEST) =>
               /\ test_results = <<>>
               /\ ~ Occurs(<< <<"### Test Results">> >>, WrittenLines)

\* C9 witness: a report written from three logs that were read, each holding
\* a line and none holding a marker.
C9_Witness ==
    /\ pc = "done"
    /\ \A p \in LogPaths : ReadWithoutMatch(p) /\ files[p].lines # <<>>

\* How often, and where, a line stands in a text.
CountLine(line, text) == Cardinality({ i \in DOMAIN text : text[i] = line })
PosLine(line, text) == CHOOSE i \in DOMAIN text : text[i] = line

\* C10: in every report the header block comes first; the sections appear at
\* most once each, in the order Clippy Findings, Formatting Issues, Test
\* Results; "### Rust Analysis" is emitted exactly when the clippy result is
\* non-empty, whatever the fmt result, so Formatting Issues stands under a
\* Rust Analysis heading only if the clippy section is rendered too.
C10_Layout ==
    LET rust == <<"### Rust Analysis">>
        cl == SectionHeading(CLIPPY)
        fm == SectionHeading(FMT)
        te == SectionHeading(TEST)
        r == report_content
    IN  /\ pc \in {"clippy", "fmt", "test", "write", "done"} =>
              /\ Len(r) >= 5
              /\ r[1] = <<"# Code Analysis Report">>
              /\ Len(r[2]) = 2 /\ r[2][1] = "Generated on: " /\ r[2][2] \in Timestamps
              /\ r[3] = <<>>
              /\ r[4] = <<"## Summary">>
              /\ r[5] = <<>>
              /\ \A h \in {rust, cl, fm, te} :
                    /\ CountLine(h, r) <= 1
                    /\ CountLine(h, r) = 1 => PosLine(h, r) > 5
              /\ (CountLine(cl, r) = 1 /\ CountLine(fm, r) = 1) => PosLine(cl, r) < PosLine(fm, r)
              /\ (CountLine(fm, r) = 1 /\ CountLine(te, r) = 1) => PosLine(fm, r) < PosLine(te, r)
              /\ (CountLine(cl, r) = 1 /\ CountLine(te, r) = 1) => PosLine(cl, r) < PosLine(te, r)
              /\ CountLine(rust, r) = CountLine(cl, r)
              /\ CountLine(rust, r) = 1 => PosLine(cl, r) = PosLine(rust, r) + 2
        /\ AfterClippy => (CountLine(rust, r) = 1 <=> clippy_results # <<>>)
        /\ AfterFmt => (CountLine(fm, r) = 1 <=> fmt_results # <<>>)
        /\ AfterTest => (CountLine(te, r) = 1 <=> test_results # <<>>)
        /\ pc = "done" => WrittenLines = r

\* C10 witness: a written report with a Formatting Issues section and a Test
\* Results section and, the clippy log being absent, no Rust Analysis heading.
C10_Witness ==
    /\ pc = "done"
    /\ files[CLIPPY].kind = "absent"
    /\ fmt_results # <<>>
    /\ test_results # <<>>
    /\ CountLine(<<"### Rust Analysis">>, WrittenLines) = 0
    /\ CountLine(<<"#### Formatting Issues">>, WrittenLines) = 1

=============================================================================
